---- MODULE Spec2Model ----
(***************************************************************************)
(* Model of src/num_ext/mod.rs (rcrypt): the BigUintCrypto extension trait *)
(* (mod_exp, is_prime, next_prime, next_prime_threaded, gcdext) and the    *)
(* private helpers next_prime_helper, is_prime_helper, miller_rabin and    *)
(* miller_rabin_thread.  One call of one public operation is one           *)
(* behaviour: a Call* action draws the arguments, the following actions    *)
(* are the steps of the call, and pc = "done" / "panicked" ends it.        *)
(***************************************************************************)
EXTENDS Integers, Sequences, FiniteSets, TLC

\* ------------------------------------------------------------------ bounds
MaxBase == 5        \* mod_exp: base in 0..MaxBase
MaxExp == 6         \* mod_exp: exponent in 0..MaxExp
MaxMod == 6         \* mod_exp: modulus in 0..MaxMod
MaxGcd == 3         \* gcdext: a, b in 0..MaxGcd
MaxN == 23          \* is_prime: candidate in 0..MaxN
MaxStart == 21      \* next_prime: start in 0..MaxStart
SearchSpan == 8     \* next_prime: candidates are tested up to MaxStart + SearchSpan
MaxMRN == 25        \* miller_rabin called directly: odd n in 5..MaxMRN
MaxK == 9           \* miller_rabin called directly: k in 0..MaxK

\* ------------------------------------------------------- program constants
NumWorkers == 8     \* for _ in 0..8 (spawn loop and collect loop)
Rounds == 100       \* miller_rabin(n, 100, thread) in is_prime_helper

VARIABLES
    op,         \* the public operation being run: "none", "mod_exp", "gcdext",
                \* "is_prime", "next_prime", "miller_rabin"
    args,       \* the arguments of the call
    thread,     \* the `thread` flag of next_prime_helper / is_prime_helper / miller_rabin
    pc,         \* position of the calling thread
    next_prime, \* next_prime_helper's local `next_prime`
    n,          \* the candidate of is_prime_helper / miller_rabin
    k,          \* miller_rabin's round count
    d, s,       \* miller_rabin's decomposition n - 1 = d * 2^s
    i,          \* miller_rabin_thread (sequential): rounds completed by the for loop
    a,          \* the witness drawn in the last sequential round
    pass,       \* whether the last sequential round reached `continue`/`break`
    rounds,     \* number of rounds (for-loop bodies, line 138) started in this miller_rabin call
    spawned,    \* workers spawned so far by the spawn loop
    running,    \* workers spawned that have neither sent nor died
    failed,     \* workers that ended without sending
    senders,    \* live Sender handles of the channel (tx and its clones)
    chan,       \* results sent and not yet received, in sending order
    got,        \* results received so far, in receiving order
    prime,      \* miller_rabin's local `prime`
    verdict,    \* value returned by is_prime_helper / miller_rabin
    result,     \* value returned by mod_exp / next_prime
    gres,       \* value returned by gcdext
    panicMsg    \* message of the panic that ended the call ("" when none)

vars == <<op, args, thread, pc, next_prime, n, k, d, s, i, a, pass, rounds,
          spawned, running, failed, senders, chan, got, prime, verdict,
          result, gres, panicMsg>>

mrvars == <<k, d, s, i, a, pass, rounds, spawned, running, failed, senders,
            chan, got, prime>>

\* --------------------------------------------------------------- BigUint
\* BigUint `%`: panics when the divisor is zero.
Ok(v) == [panic |-> FALSE, val |-> v]

DivByZero == [panic |-> TRUE, val |-> 0]

BigRem(x, m) == IF m = 0 THEN DivByZero ELSE Ok(x % m)

\* ---------------------------------------------------------------- mod_exp
RECURSIVE mod_exp_loop(_, _, _, _)
mod_exp_loop(res, base_acc, exp_acc, modulus) ==
    IF exp_acc > 0
    THEN LET r1 == IF (exp_acc % 2) = 1
                   THEN BigRem(res * base_acc, modulus)
                   ELSE Ok(res)
             b1 == BigRem(base_acc * base_acc, modulus)
         IN  IF r1.panic \/ b1.panic
             THEN DivByZero
             ELSE mod_exp_loop(r1.val, b1.val, exp_acc \div 2, modulus)
    ELSE Ok(res)

mod_exp(base, exponent, modulus) == mod_exp_loop(1, base, exponent, modulus)

\* ------------------------------------------------------------------ gcdext
gcdext(x, y) == <<0, 0, 0>>

\* ------------------------------------------------------- next_prime_helper
FirstCandidate(st) == IF st % 2 = 0 THEN st + 1 ELSE st + 2

\* --------------------------------------------------------- is_prime_helper
\* Variant of is_prime_helper with the parity test ahead of the test for 2 and 3.
is_prime_helper_parity_first(c) ==
    IF c < 2 \/ c % 2 = 0 THEN "false"
    ELSE IF c = 3 \/ c = 2 THEN "true"
    ELSE "miller_rabin"

\* "true" / "false": the early returns; "miller_rabin": the tail call.
is_prime_helper(c) ==
    IF c = 3 \/ c = 2 THEN "true"
    ELSE IF c < 2 \/ c % 2 = 0 THEN "false"
    ELSE "miller_rabin"

\* ------------------------------------------------------------ miller_rabin
\* Variant of the decomposition with an `if` in place of the `while`.
Decompose_once(dd, ss) ==
    IF dd % 2 = 0 THEN <<dd \div 2, ss + 1>> ELSE <<dd, ss>>

RECURSIVE Decompose(_, _)
Decompose(dd, ss) ==
    IF dd % 2 = 0 THEN Decompose(dd \div 2, ss + 1) ELSE <<dd, ss>>

\* thread_rng().gen_biguint_range(&two, &(n - &two)): lower bound inclusive,
\* upper bound exclusive.
Witnesses(c) == 2 .. (c - 3)

\* The inner `loop` of miller_rabin_thread: TRUE for `break`, FALSE for `return false`.
RECURSIVE inner_loop(_, _, _, _)
inner_loop(x, j, c, ss) ==
    LET x1 == mod_exp(x, 2, c).val
    IN  IF x1 = 1 \/ j = ss - 1 THEN FALSE
        ELSE IF x1 = c - 1 THEN TRUE
        ELSE inner_loop(x1, j + 1, c, ss)

\* Variant of miller_rabin_round whose first test forgets x == n - 1.
miller_rabin_round_only_one(w, c, dd, ss) ==
    LET x == mod_exp(w, dd, c).val
    IN  IF x = 1 THEN TRUE ELSE inner_loop(x, 0, c, ss)

\* One body of the `for _ in 0..k` loop with witness w: TRUE when the loop goes
\* on to the next round, FALSE when the function returns false.
miller_rabin_round(w, c, dd, ss) ==
    LET x == mod_exp(w, dd, c).val
    IN  IF x = 1 \/ x = c - 1 THEN TRUE ELSE inner_loop(x, 0, c, ss)

\* All runs of the `for _ in 0..kk` loop of miller_rabin_thread over the
\* witnesses it may draw: the value returned and the number of rounds started.
\* fails / passes: some witness makes a round return false / go on.
RECURSIVE for_loop_runs(_, _, _)
for_loop_runs(kk, fails, passes) ==
    IF kk = 0
    THEN {[result |-> TRUE, rounds |-> 0]}
    ELSE (IF fails THEN {[result |-> FALSE, rounds |-> 1]} ELSE {})
         \cup
         (IF passes
          THEN {[result |-> r.result, rounds |-> r.rounds + 1] :
                    r \in for_loop_runs(kk - 1, fails, passes)}
          ELSE {})

miller_rabin_thread(c, dd, ss, kk) ==
    for_loop_runs(kk,
                  \E w \in Witnesses(c) : ~miller_rabin_round(w, c, dd, ss),
                  \E w \in Witnesses(c) : miller_rabin_round(w, c, dd, ss))

\* Rounds handed to each worker: k/8 (usize division).
WorkerRounds(kk) == kk \div NumWorkers

\* Where a verdict of is_prime_helper goes: back into next_prime_helper's
\* while loop, or to the caller.
RetPc == IF op = "next_prime" THEN "np_while" ELSE "done"

\* -------------------------------------------------------------------- Init
Init ==
    /\ op = "none" /\ args = <<>> /\ thread = FALSE /\ pc = "idle"
    /\ next_prime = 0 /\ n = 0 /\ k = 0 /\ d = 0 /\ s = 0
    /\ i = 0 /\ a = 0 /\ pass = TRUE /\ rounds = 0
    /\ spawned = 0 /\ running = 0 /\ failed = 0 /\ senders = 0
    /\ chan = <<>> /\ got = <<>> /\ prime = TRUE
    /\ verdict = FALSE /\ result = 0 /\ gres = <<>> /\ panicMsg = ""

\* ----------------------------------------------------------------- actions
\* BigUintCrypto::mod_exp
CallModExp ==
    /\ pc = "idle"
    /\ \E b \in 0..MaxBase, e \in 0..MaxExp, m \in 0..MaxMod :
          LET r == mod_exp(b, e, m)
          IN  /\ op' = "mod_exp"
              /\ args' = <<b, e, m>>
              /\ IF r.panic
                 THEN /\ pc' = "panicked"
                      /\ panicMsg' = "attempt to divide by zero"
                      /\ result' = result
                 ELSE /\ pc' = "done"
                      /\ result' = r.val
                      /\ panicMsg' = panicMsg
    /\ UNCHANGED <<thread, next_prime, n, verdict, gres>>
    /\ UNCHANGED mrvars

\* BigUintCrypto::gcdext
CallGcdext ==
    /\ pc = "idle"
    /\ \E x \in 0..MaxGcd, y \in 0..MaxGcd :
          /\ op' = "gcdext"
          /\ args' = <<x, y>>
          /\ gres' = gcdext(x, y)
          /\ pc' = "done"
    /\ UNCHANGED <<thread, next_prime, n, verdict, result, panicMsg>>
    /\ UNCHANGED mrvars

\* BigUintCrypto::is_prime (thread = FALSE); is_prime_helper(n, true) is what
\* next_prime_threaded runs on each candidate.
CallIsPrime ==
    /\ pc = "idle"
    /\ \E c \in 0..MaxN, t \in BOOLEAN :
          /\ op' = "is_prime"
          /\ args' = <<c>>
          /\ thread' = t
          /\ n' = c
          /\ pc' = "is_prime_helper"
    /\ UNCHANGED <<next_prime, verdict, result, gres, panicMsg>>
    /\ UNCHANGED mrvars

\* BigUintCrypto::next_prime / next_prime_threaded: next_prime_helper up to
\* the first evaluation of the while condition.
CallNextPrime ==
    /\ pc = "idle"
    /\ \E st \in 0..MaxStart, t \in BOOLEAN :
          /\ op' = "next_prime"
          /\ args' = <<st>>
          /\ thread' = t
          /\ next_prime' = FirstCandidate(st)
          /\ n' = FirstCandidate(st)
          /\ pc' = "is_prime_helper"
    /\ UNCHANGED <<verdict, result, gres, panicMsg>>
    /\ UNCHANGED mrvars

\* miller_rabin called directly (as the benches do), n odd and greater than 3.
CallMillerRabin ==
    /\ pc = "idle"
    /\ \E c \in 5..MaxMRN, kk \in 0..MaxK, t \in BOOLEAN :
          /\ c % 2 = 1
          /\ op' = "miller_rabin"
          /\ args' = <<c, kk>>
          /\ thread' = t
          /\ n' = c
          /\ k' = kk
          /\ pc' = "miller_rabin"
    /\ UNCHANGED <<next_prime, verdict, result, gres, panicMsg>>
    /\ UNCHANGED <<d, s, i, a, pass, rounds, spawned, running, failed, senders,
                   chan, got, prime>>

\* is_prime_helper: the two early returns, or the call of miller_rabin(n, 100, thread).
IsPrimeHelper ==
    /\ pc = "is_prime_helper"
    /\ LET r == is_prime_helper(n)
       IN  IF r = "miller_rabin"
           THEN /\ k' = Rounds
                /\ pc' = "miller_rabin"
                /\ verdict' = verdict
           ELSE /\ verdict' = (r = "true")
                /\ pc' = RetPc
                /\ k' = k
    /\ UNCHANGED <<op, args, thread, next_prime, n, result, gres, panicMsg>>
    /\ UNCHANGED <<d, s, i, a, pass, rounds, spawned, running, failed, senders,
                   chan, got, prime>>

\* miller_rabin: channel creation, the decomposition loop and the branch on `thread`.
MillerRabin ==
    /\ pc = "miller_rabin"
    /\ LET ds == Decompose(n - 1, 0)
       IN  /\ d' = ds[1]
           /\ s' = ds[2]
    /\ senders' = 1
    /\ chan' = <<>>
    /\ pc' = IF thread THEN "spawn" ELSE "mr_thread"
    /\ UNCHANGED <<op, args, thread, next_prime, n, k, i, a, pass, rounds,
                   spawned, running, failed, got, prime, verdict, result,
                   gres, panicMsg>>

\* miller_rabin_thread on the calling thread: one round of the for loop.
MRThreadRound ==
    /\ pc = "mr_thread"
    /\ i < k
    /\ \E w \in Witnesses(n) :
          /\ a' = w
          /\ rounds' = rounds + 1
          /\ IF miller_rabin_round(w, n, d, s)
             THEN /\ pass' = TRUE
                  /\ i' = i + 1
                  /\ pc' = pc
                  /\ verdict' = verdict
             ELSE /\ pass' = FALSE
                  /\ i' = i
                  /\ verdict' = FALSE
                  /\ pc' = RetPc
    /\ UNCHANGED <<op, args, thread, next_prime, n, k, d, s, spawned, running,
                   failed, senders, chan, got, prime, result, gres, panicMsg>>

\* miller_rabin_thread on the calling thread: the for loop is exhausted.
MRThreadDone ==
    /\ pc = "mr_thread"
    /\ i = k
    /\ verdict' = TRUE
    /\ pc' = RetPc
    /\ UNCHANGED <<op, args, thread, next_prime, n, result, gres, panicMsg>>
    /\ UNCHANGED mrvars

\* One iteration of the spawn loop: tx.clone() and thread::spawn.
SpawnWorker ==
    /\ pc = "spawn"
    /\ spawned < NumWorkers
    /\ spawned' = spawned + 1
    /\ running' = running + 1
    /\ senders' = senders + 1
    /\ pc' = IF spawned + 1 = NumWorkers THEN "collect" ELSE "spawn"
    /\ prime' = TRUE
    /\ UNCHANGED <<op, args, thread, next_prime, n, k, d, s, i, a, pass,
                   rounds, failed, chan, got, verdict, result, gres, panicMsg>>

\* A worker closure: miller_rabin_thread(n, d, s, k/8), tx.send(result), and
\* the drop of its Sender clone as the closure ends.
WorkerRun ==
    /\ running > 0
    /\ \E r \in miller_rabin_thread(n, d, s, WorkerRounds(k)) :
          /\ chan' = Append(chan, r.result)
          /\ rounds' = rounds + r.rounds
    /\ running' = running - 1
    /\ senders' = senders - 1
    /\ UNCHANGED <<op, args, thread, pc, next_prime, n, k, d, s, i, a, pass,
                   spawned, failed, got, prime, verdict, result, gres, panicMsg>>

\* A worker that panics before tx.send: unwinding drops its Sender clone and
\* nothing is sent.
WorkerFail ==
    /\ running > 0
    /\ running' = running - 1
    /\ failed' = failed + 1
    /\ senders' = senders - 1
    /\ UNCHANGED <<op, args, thread, pc, next_prime, n, k, d, s, i, a, pass,
                   rounds, spawned, chan, got, prime, verdict, result, gres,
                   panicMsg>>

\* Variant of the collect loop that returns at the first false result.
Recv_stop_at_false ==
    /\ pc = "collect"
    /\ Len(got) < NumWorkers
    /\ chan # <<>>
    /\ chan' = Tail(chan)
    /\ got' = Append(got, Head(chan))
    /\ prime' = (prime /\ Head(chan))
    /\ IF Len(got) + 1 = NumWorkers \/ ~Head(chan)
       THEN /\ verdict' = (prime /\ Head(chan))
            /\ pc' = RetPc
       ELSE /\ verdict' = verdict
            /\ pc' = pc
    /\ UNCHANGED <<op, args, thread, next_prime, n, k, d, s, i, a, pass,
                   rounds, spawned, running, failed, senders, result, gres,
                   panicMsg>>

\* One iteration of the collect loop.  rx.recv() yields the oldest message;
\* with no message it blocks while any Sender is alive and yields Err once
\* every Sender has been dropped, which expect() turns into a panic.
Recv ==
    /\ pc = "collect"
    /\ Len(got) < NumWorkers
    /\ chan # <<>> \/ senders = 0
    /\ IF chan # <<>>
       THEN /\ chan' = Tail(chan)
            /\ got' = Append(got, Head(chan))
            /\ prime' = (prime /\ Head(chan))
            /\ IF Len(got) + 1 = NumWorkers
               THEN /\ verdict' = (prime /\ Head(chan))
                    /\ pc' = RetPc
               ELSE /\ verdict' = verdict
                    /\ pc' = pc
            /\ panicMsg' = panicMsg
       ELSE /\ pc' = "panicked"
            /\ panicMsg' = "A thread failed"
            /\ UNCHANGED <<chan, got, prime, verdict>>
    /\ UNCHANGED <<op, args, thread, next_prime, n, k, d, s, i, a, pass,
                   rounds, spawned, running, failed, senders, result, gres>>

\* next_prime_helper: the while condition has been evaluated; return the
\* candidate or advance it by two and test again.
NextPrimeWhile ==
    /\ pc = "np_while"
    /\ IF verdict
       THEN /\ result' = next_prime
            /\ pc' = "done"
            /\ UNCHANGED <<next_prime, n>>
            /\ UNCHANGED mrvars
       ELSE /\ next_prime + 2 <= MaxStart + SearchSpan
            /\ next_prime' = next_prime + 2
            /\ n' = next_prime + 2
            /\ pc' = "is_prime_helper"
            /\ result' = result
            /\ k' = 0 /\ d' = 0 /\ s' = 0 /\ i' = 0 /\ a' = 0 /\ pass' = TRUE
            /\ rounds' = 0 /\ spawned' = 0 /\ running' = 0 /\ failed' = 0
            /\ senders' = 0 /\ chan' = <<>> /\ got' = <<>> /\ prime' = TRUE
    /\ UNCHANGED <<op, args, thread, verdict, gres, panicMsg>>

Next ==
    \/ CallModExp
    \/ CallGcdext
    \/ CallIsPrime
    \/ CallNextPrime
    \/ CallMillerRabin
    \/ IsPrimeHelper
    \/ MillerRabin
    \/ MRThreadRound
    \/ MRThreadDone
    \/ SpawnWorker
    \/ WorkerRun
    \/ WorkerFail
    \/ Recv
    \/ NextPrimeWhile

Spec == Init /\ [][Next]_vars

\* ------------------------------------------------------ reference notions
\* Primality by trial division.
IsPrimeRef(q) == q >= 2 /\ \A f \in 2..(q - 1) : q % f # 0

\* b^e by repeated multiplication.
RECURSIVE PowRef(_, _)
PowRef(b, e) == IF e = 0 THEN 1 ELSE b * PowRef(b, e - 1)

\* b^e mod m by repeated multiplication, reduced at every step.
RECURSIVE PowModRef(_, _, _)
PowModRef(b, e, m) == IF e = 0 THEN 1 % m ELSE (b * PowModRef(b, e - 1, m)) % m

\* The greatest common divisor, gcd(0, 0) = 0.
GcdRef(x, y) ==
    IF x = 0 /\ y = 0 THEN 0
    ELSE CHOOSE g \in 1..(x + y) :
            /\ x % g = 0 /\ y % g = 0
            /\ \A h \in 1..(x + y) : (x % h = 0 /\ y % h = 0) => h <= g

\* w is a strong probable-prime base of the odd number c.
StrongProbablePrimeRef(w, c) ==
    \E ss \in 1..c, dd \in 1..c :
        /\ dd % 2 = 1
        /\ dd * PowRef(2, ss) = c - 1
        /\ \/ PowModRef(w, dd, c) = 1
           \/ \E r \in 0..(ss - 1) : PowModRef(w, dd * PowRef(2, r), c) = c - 1

\* A verdict of is_prime_helper / miller_rabin on candidate n has been returned.
Returned == pc \in {"done", "np_while"} /\ op \in {"is_prime", "next_prime", "miller_rabin"}

\* miller_rabin has run on candidate n (its decomposition is set).
RanMillerRabin == Returned /\ d > 0

\* ------------------------------------------------------------------ claims
\* C1: for m >= 1, mod_exp(b, e, m) returns (b^e) mod m as computed by repeated
\* multiplication, a value in [0, m); in particular 1 mod m for e = 0, m = 1 included.
C1_ModExpMatchesReference ==
    (op = "mod_exp" /\ args[3] >= 1) =>
        /\ pc = "done"
        /\ result = PowRef(args[1], args[2]) % args[3]
        /\ result \in 0..(args[3] - 1)

\* C2: the value returned by next_prime(start) / next_prime_threaded(start) is
\* strictly greater than start and no integer strictly between start and it is
\* prime, start = 0 and start = 1 included.
C2_NextPrimeSkipsNoPrime ==
    (op = "next_prime" /\ pc = "done") =>
        /\ result > args[1]
        /\ \A q \in (args[1] + 1)..(result - 1) : ~IsPrimeRef(q)

\* C3: no false negatives: for a prime candidate every round passes whatever
\* witness is drawn, every worker reports true, and the verdict returned in
\* sequential and in parallel mode is true; is_prime(p) is true for every prime p.
C3_NoFalseNegative ==
    IsPrimeRef(n) =>
        /\ Returned => verdict
        /\ pass
        /\ \A j \in 1..Len(chan) : chan[j]
        /\ \A j \in 1..Len(got) : got[j]

C3_Witness ==
    /\ op = "is_prime" /\ thread /\ pc = "done"
    /\ IsPrimeRef(n) /\ n > 3
    /\ Len(got) = NumWorkers /\ rounds > 0 /\ verdict

\* C4: is_prime answers true for 2 and 3 and false for candidates below 2 and
\* even candidates other than 2 without entering miller_rabin; only odd
\* candidates >= 5 reach miller_rabin.
C4_SmallAndEvenDecidedEarly ==
    (op \in {"is_prime", "next_prime"}) =>
        /\ (pc \in {"miller_rabin", "mr_thread", "spawn", "collect"} \/ d > 0 \/ rounds > 0)
              => (n % 2 = 1 /\ n >= 5)
        /\ (Returned /\ (n < 5 \/ n % 2 = 0))
              => /\ verdict = (n \in {2, 3})
                 /\ d = 0 /\ rounds = 0 /\ spawned = 0

C4_Witness ==
    /\ op = "is_prime" /\ pc = "done" /\ n = 2 /\ verdict /\ d = 0 /\ rounds = 0

\* C5: in parallel mode a worker that ends without sending makes the call end
\* with the panic "A thread failed": no verdict is returned, and once every
\* worker has ended and every result sent has been received the collect loop
\* takes its step (the receive that fails and panics) instead of blocking.
C5_WorkerFailureSurfaces ==
    failed > 0 =>
        /\ ~Returned
        /\ pc = "panicked" => panicMsg = "A thread failed"
        /\ (pc = "collect" /\ running = 0 /\ chan = <<>>) => ENABLED Next

\* C6: mod_exp with modulus 0 panics (division by zero) for every base and
\* exponent, exponent 0 included; it never returns a value.
C6_ZeroModulusFails ==
    (op = "mod_exp" /\ args[3] = 0) => pc = "panicked"

\* C7: gcdext(a, b) returns (g, x, y) with g = gcd(a, b) and g = a*x + b*y.
C7_GcdextContract ==
    (op = "gcdext" /\ pc = "done") =>
        /\ gres[1] = GcdRef(args[1], args[2])
        /\ gres[1] = args[1] * gres[2] + args[2] * gres[3]

\* C8: parallel miller_rabin spawns exactly 8 workers, collects only once all
\* 8 are spawned, returns only after receiving 8 results, and returns their
\* conjunction whatever the order of arrival; a false result ends nothing early.
C8_CollectsAllEight ==
    thread =>
        /\ spawned <= NumWorkers
        /\ spawned = running + failed + Len(chan) + Len(got)
        /\ pc = "collect" => spawned = NumWorkers
        /\ RanMillerRabin =>
              /\ spawned = NumWorkers
              /\ Len(got) = NumWorkers
              /\ running = 0 /\ chan = <<>>
              /\ verdict = (\A j \in 1..Len(got) : got[j])

C8_Witness ==
    /\ thread /\ pc = "done" /\ Len(got) = NumWorkers
    /\ ~got[1] /\ got[NumWorkers] /\ ~verdict

\* C9: the decomposition has d odd, s >= 1 and d * 2^s = n - 1; a round passes
\* exactly when its witness is a strong probable-prime base of n; a round that
\* does not pass returns false at once, no later round being run.
C9_DecompositionAndRound ==
    /\ pc \in {"mr_thread", "spawn", "collect"} =>
          (d % 2 = 1 /\ s >= 1 /\ d * PowRef(2, s) = n - 1)
    /\ (~thread /\ a > 0) => (pass = StrongProbablePrimeRef(a, n))
    /\ (~thread /\ pc = "mr_thread") => (pass /\ rounds = i)
    /\ (~thread /\ ~pass) => (Returned /\ ~verdict /\ rounds = i + 1)

C9_Witness ==
    /\ ~thread /\ pc = "done" /\ ~pass /\ i >= 1 /\ ~verdict
    /\ ~StrongProbablePrimeRef(a, n)

\* C10: when no round fails, the rounds run by a miller_rabin call equal the
\* requested count k, in parallel mode as in sequential mode.
C10_ParallelRunsAllRounds ==
    (RanMillerRabin /\ verdict) => rounds = k

====
